---- MODULE Spec2Model ----
(***************************************************************************)
(* Extension manager server of basequery-go (server.go): the plugin       *)
(* registry, the dispatch path (Call), the lifecycle (Start, Run,         *)
(* Shutdown) and the watchdog, as a state machine of concurrent tasks.    *)
(***************************************************************************)
EXTENDS Integers, Sequences, FiniteSets, TLC

\* ------------------------------------------------------------- bounds
MaxArgs == 2          \* longest argument list given to RegisterPlugin
MaxRegCalls == 2      \* RegisterPlugin calls made by the embedding program
MaxRequests == 2      \* requests the host sends
MaxUserShutdowns == 1 \* Shutdown calls made by the embedding program
MaxRows == 3          \* most rows the mutable table is let grow to
MaxTableOps == 3      \* operations the host runs on the mutable table
MaxReplyRows == 3     \* most rows in a host reply to a client query

\* ------------------------------------------------------------- plugins
\* validRegistryNames: the allowable RegistryName() values.
validRegistryNames == {"table", "logger", "config", "distributed"}

\* The plugin instances the embedding program may hand to RegisterPlugin.
\* p1 and p2 share (table, t1); p3 has the same name in another category;
\* p4 declares a category outside validRegistryNames.
PluginIds == {"p1", "p2", "p3", "p4"}
\* The same with p5, a second table under another name.
MorePluginIds == PluginIds \cup {"p5"}

RegistryName(p) ==
    CASE p = "p1" -> "table"
      [] p = "p2" -> "table"
      [] p = "p3" -> "config"
      [] p = "p5" -> "table"
      [] OTHER    -> "bogus"

Name(p) == IF p = "p5" THEN "t2" ELSE "t1"

\* Category and item strings a host request may carry.
CallRegistries == {"table", "config", "distributed", "bogus"}
CallItems == {"t1", "zz"}
\* ExtensionPluginRequest: a string map; only request["action"] is read.
Requests == {[action |-> "generate"], [action |-> "shutdown"]}

\* ExtensionStatus / ExtensionResponse values.
Status(code, message) == [code |-> code, message |-> message]
Response(status, rows) == [status |-> status, response |-> rows]
\* What a plugin's Call may answer: success with rows, success without,
\* or a plugin-level failure status.
PluginResponses ==
    { Response(Status(0, "OK"), <<"row">>),
      Response(Status(0, "OK"), <<>>),
      Response(Status(1, "plugin failed"), <<>>) }

NULL == "nil"
NoRequest == [action |-> "none"]
NoResponse == [status |-> [code |-> -1, message |-> "none"], response |-> <<>>]
\* A nil instrument (*prometheus.CounterVec and the like).
NilVec == [k \in {} |-> 0]
IsNil(vec) == DOMAIN vec = {}
NotFound == "not-found"
EmptyMap == [n \in {} |-> NULL]

\* The argument lists of RegisterPlugin(plugins ...Plugin).
RECURSIVE SeqsUpTo(_, _)
SeqsUpTo(S, n) ==
    IF n = 0 THEN { <<>> }
    ELSE LET shorter == SeqsUpTo(S, n - 1)
         IN  shorter \cup { Append(s, x) : s \in { t \in shorter : Len(t) = n - 1 }, x \in S }

ArgLists == SeqsUpTo(PluginIds, MaxArgs)
MoreArgLists == SeqsUpTo(MorePluginIds, MaxArgs)

\* ------------------------------------------------------------- state
Tasks == {"user", "run", "start", "watchdog", "host", "metrics", "waiter"}

VARIABLES
    registry,        \* s.registry: category -> (name -> plugin)
    server,          \* s.server: the thrift server handle, or nil
    transport,       \* s.transport: the listening endpoint, or nil
    started,         \* s.started
    promServer,      \* s.promServer
    pluginCounter,   \* s.pluginCounter: nil, or (item, action) -> count
    pluginGauge,     \* s.pluginGauge: nil, or (item, action) -> value
    pluginTime,      \* s.pluginTime: nil, or (item, action) -> observations
    prometheusPort,  \* s.prometheusPort
    mutex,           \* s.mutex: the task holding it, or nil
    pc,              \* position of every task
    crashed,         \* the process was terminated by an unrecovered panic
    regRest,         \* RegisterPlugin: plugins of the call not yet visited
    regEntry,        \* the registry when the last unfinished or panicked call began
    regResult,       \* outcome of the last RegisterPlugin call
    regCalls,        \* RegisterPlugin calls made so far
    latest,          \* (category, name) -> plugin last inserted under it
    userShutdowns,   \* Shutdown calls made by the embedding program
    closed,          \* thrift server: Stop has begun
    serving,         \* thrift server: the accept loop is running
    everServed,      \* the accept loop has run at some time
    inflight,        \* requests being processed by the thrift server
    stopPending,     \* "go server.Stop()" tasks spawned and not yet running
    stopWaiting,     \* Stop tasks waiting for in-flight requests
    stopInitiated,   \* number of Stop tasks Shutdown has spawned
    sdAfterStart,    \* a Shutdown call has completed after Start succeeded
    regExtCalls,     \* RegisterExtension calls made by Start
    startErr,        \* what Start returns (nil or an error), "none" before
    errc,            \* value received by Run from the completion channel
    errcFrom,        \* which task delivered it
    pingFailures,    \* failed pings the watchdog has seen
    signals,         \* failures the watchdog has sent on errc
    promState,       \* metrics endpoint: none, listening or shutdown
    runTrace,        \* what Run has done after the receive, in order
    runResult,       \* what Run returned, "none" before
    requests,        \* requests the host has sent
    cur,             \* the request being dispatched
    lastCall,        \* record of the last finished dispatch
    dispatched,      \* keys (item, action) of the dispatches that found a plugin, with metrics on
    shutdownCalls,   \* the plugins whose Shutdown() has been called, in order
    mutableData,     \* mutable-table example: the rows seen through the slice
    lock,            \* its sync.RWMutex: the writer and the readers holding it
    arrayGen,        \* which backing array mutableData points into, 0 for the nil slice
    spare,           \* cap(mutableData) - len(mutableData)
    tpc,             \* position of every request handler of the example
    top,             \* the operation every handler is carrying out
    alias,           \* the backing array a handler's generate result points into
    lastOp,          \* the last finished Insert, Update or Delete
    tableOps,        \* table operations begun so far
    qResult          \* client: the last query, the host's reply and what was returned

vars == << registry, server, transport, started, promServer, pluginCounter,
           pluginGauge, pluginTime, prometheusPort, mutex, pc, crashed,
           regRest, regEntry, regResult, regCalls, latest, userShutdowns,
           closed, serving, everServed, inflight, stopPending, stopWaiting,
           stopInitiated, sdAfterStart, regExtCalls, startErr, errc,
           errcFrom, pingFailures, signals, promState, runTrace, runResult,
           requests, cur, lastCall, dispatched, shutdownCalls,
           mutableData, lock, arrayGen, spare, tpc, top, alias, lastOp,
           tableOps, qResult >>

registryVars == << registry, latest, regRest, regEntry, regResult, regCalls >>
metricVars == << pluginCounter, pluginGauge, pluginTime >>
thriftVars == << closed, serving, everServed, inflight, stopPending, stopWaiting >>
shutdownVars == << server, stopInitiated, sdAfterStart, userShutdowns >>
startVars == << transport, started, promServer, prometheusPort, regExtCalls, startErr, promState >>
runVars == << errc, errcFrom, pingFailures, signals, runTrace, runResult >>
callVars == << requests, cur, lastCall, dispatched >>
tableVars == << mutableData, lock, arrayGen, spare, tpc, top, alias, lastOp, tableOps >>
clientVars == << qResult >>
\* What no step of server.go writes.
asideVars == << shutdownCalls, tableVars, clientVars >>
\* The state of server.go.
serverVars == << registryVars, metricVars, thriftVars, shutdownVars, startVars,
                 runVars, callVars, mutex, pc, shutdownCalls >>

\* The request handlers of the mutable-table example, one per connection.
Handlers == {"h1", "h2"}
NoOp == [kind |-> "none"]
NoRow == [i |-> "", b |-> "", d |-> "", t |-> ""]
NoAlias == -1
\* mutableData as main sets it.
InitialRows ==
    << [i |-> "1234", b |-> "12345678900", d |-> "1.2345", t |-> "hello"],
       [i |-> "-1234", b |-> "-12345678900", d |-> "-1.2345", t |-> "world"] >>
\* A host reply the client has not received, and no result.
NoStatus == [code |-> -1, message |-> "nil"]
NoResult == [op |-> "none"]

NoCall == [kind |-> "none"]

\* The label pairs (item, action) of the instruments.
MetricKeys == CallItems \X { r.action : r \in Requests }
ZeroVec == [k \in MetricKeys |-> 0]

\* NewExtensionManagerServer: a nested map for every valid registry name,
\* defaults, then the options (here: the prometheus port).
Init ==
    /\ registry = [reg \in validRegistryNames |-> EmptyMap]
    /\ server = NULL
    /\ transport = NULL
    /\ started = FALSE
    /\ promServer = NULL
    /\ pluginCounter = NilVec
    /\ pluginGauge = NilVec
    /\ pluginTime = NilVec
    /\ prometheusPort \in {0, 3000}
    /\ mutex = NULL
    /\ pc = [t \in Tasks |-> IF t \in {"user", "run", "host"} THEN "idle"
                            ELSE IF t = "waiter" THEN "poll" ELSE "off"]
    /\ crashed = FALSE
    /\ regRest = <<>>
    /\ regEntry = [reg \in validRegistryNames |-> EmptyMap]
    /\ regResult = "none"
    /\ regCalls = 0
    /\ latest = [k \in CallRegistries \X CallItems |-> NotFound]
    /\ userShutdowns = 0
    /\ closed = FALSE
    /\ serving = FALSE
    /\ everServed = FALSE
    /\ inflight = 0
    /\ stopPending = 0
    /\ stopWaiting = 0
    /\ stopInitiated = 0
    /\ sdAfterStart = FALSE
    /\ regExtCalls = 0
    /\ startErr = "none"
    /\ errc = "none"
    /\ errcFrom = "none"
    /\ pingFailures = 0
    /\ signals = 0
    /\ promState = "none"
    /\ runTrace = <<>>
    /\ runResult = "none"
    /\ requests = 0
    /\ cur = NoCall
    /\ lastCall = NoCall
    /\ dispatched = << >>
    /\ shutdownCalls = << >>
    /\ mutableData = << >>
    /\ lock = [writer |-> NULL, readers |-> {}]
    /\ arrayGen = 0
    /\ spare = 0
    /\ tpc = [t \in Handlers |-> "idle"]
    /\ top = [t \in Handlers |-> NoOp]
    /\ alias = [t \in Handlers |-> NoAlias]
    /\ lastOp = NoOp
    /\ tableOps = 0
    /\ qResult = NoResult

\* ------------------------------------------------------------- registry
\* m[k] = v on a Go map.
MapPut(m, k, v) == [n \in (DOMAIN m) \cup {k} |-> IF n = k THEN v ELSE m[n]]

\* An insertion that keeps the plugin already registered under the name.
InsertKeepsFirst(reg, p) ==
    IF Name(p) \in DOMAIN reg[RegistryName(p)]
    THEN reg
    ELSE [reg EXCEPT ![RegistryName(p)] = MapPut(@, Name(p), p)]

\* An insertion that stores a fresh inner map holding only the new plugin.
InsertFreshMap(reg, p) ==
    [reg EXCEPT ![RegistryName(p)] = MapPut(EmptyMap, Name(p), p)]

\* An insertion keyed by the plugin's name in the outer map: the name becomes
\* a category of its own.
InsertUnderName(reg, p) == MapPut(reg, Name(p), MapPut(EmptyMap, Name(p), p))

\* s.registry[plugin.RegistryName()][plugin.Name()] = plugin
Insert(reg, p) == [reg EXCEPT ![RegistryName(p)] = MapPut(@, Name(p), p)]

\* The two-level lookup of Call: the plugin under (category, item), if any.
Lookup(reg, category, item) ==
    IF category \notin DOMAIN reg THEN NotFound
    ELSE IF item \notin DOMAIN reg[category] THEN NotFound
    ELSE reg[category][item]

\* RegisterPlugin is entered: s.mutex.Lock(); defer s.mutex.Unlock().
RegisterPluginLock(plugins) ==
    /\ ~crashed
    /\ pc["user"] = "idle"
    /\ regCalls < MaxRegCalls
    /\ mutex = NULL
    /\ regRest' = plugins
    /\ regEntry' = registry
    /\ mutex' = "user"
    /\ regCalls' = regCalls + 1
    /\ regResult' = "running"
    /\ pc' = [pc EXCEPT !["user"] = "register"]
    /\ UNCHANGED << registry, latest, metricVars, thriftVars, shutdownVars,
                    startVars, runVars, callVars, crashed >>
    /\ UNCHANGED asideVars

\* One iteration of the loop whose plugin has a valid registry name.
RegisterPluginInsert ==
    /\ ~crashed
    /\ pc["user"] = "register"
    /\ regRest # <<>>
    /\ RegistryName(Head(regRest)) \in validRegistryNames
    /\ registry' = Insert(registry, Head(regRest))
    /\ latest' = [latest EXCEPT ![<<RegistryName(Head(regRest)), Name(Head(regRest))>>] = Head(regRest)]
    /\ regRest' = Tail(regRest)
    /\ UNCHANGED << regEntry, regResult, regCalls, mutex, pc, metricVars, thriftVars,
                    shutdownVars, startVars, runVars, callVars, crashed >>
    /\ UNCHANGED asideVars

\* One iteration whose plugin has an invalid registry name: panic. The
\* deferred Unlock runs; the panic ends the process unless the caller
\* recovers it.
RegisterPluginPanic ==
    /\ ~crashed
    /\ pc["user"] = "register"
    /\ regRest # <<>>
    /\ RegistryName(Head(regRest)) \notin validRegistryNames
    /\ regRest' = <<>>
    /\ regResult' = "panic"
    /\ mutex' = NULL
    /\ pc' = [pc EXCEPT !["user"] = "idle"]
    /\ \E recovered \in BOOLEAN : crashed' = ~recovered
    /\ UNCHANGED << registry, latest, regEntry, regCalls, metricVars, thriftVars,
                    shutdownVars, startVars, runVars, callVars >>
    /\ UNCHANGED asideVars

\* The loop is over: the deferred Unlock runs and RegisterPlugin returns.
RegisterPluginReturn ==
    /\ ~crashed
    /\ pc["user"] = "register"
    /\ regRest = <<>>
    /\ regResult' = "ok"
    /\ regEntry' = registry
    /\ mutex' = NULL
    /\ pc' = [pc EXCEPT !["user"] = "idle"]
    /\ UNCHANGED << registry, latest, regRest, regCalls, metricVars,
                    thriftVars, shutdownVars, startVars, runVars, callVars, crashed >>
    /\ UNCHANGED asideVars

\* ------------------------------------------------------------- Shutdown
ShutdownCallers == {"user", "run", "host"}

\* Where a task continues once its Shutdown call has returned.
AfterShutdown(t) ==
    CASE t = "user" -> "idle"
      [] t = "run"  -> "returning"
      [] t = "host" -> "gauge"

\* A Shutdown that goes on into its body without waiting for the mutex.
ShutdownLockNoWait(t) ==
    /\ ~crashed
    /\ pc[t] = "sd_enter"
    /\ mutex' = t
    /\ pc' = [pc EXCEPT ![t] = "sd_locked"]
    /\ UNCHANGED << registryVars, metricVars, thriftVars, shutdownVars, startVars,
                    runVars, callVars, crashed >>
    /\ UNCHANGED asideVars

\* Shutdown: s.mutex.Lock().
ShutdownLock(t) ==
    /\ ~crashed
    /\ pc[t] = "sd_enter"
    /\ mutex = NULL
    /\ mutex' = t
    /\ pc' = [pc EXCEPT ![t] = "sd_locked"]
    /\ UNCHANGED << registryVars, metricVars, thriftVars, shutdownVars, startVars,
                    runVars, callVars, crashed >>
    /\ UNCHANGED asideVars

\* Shutdown with the handle left in place (s.server = nil forgotten).
ShutdownBodyKeepsHandle(t) ==
    /\ ~crashed
    /\ pc[t] = "sd_locked"
    /\ IF server # NULL
       THEN /\ stopPending' = stopPending + 1
            /\ stopInitiated' = stopInitiated + 1
       ELSE UNCHANGED << stopPending, stopInitiated >>
    /\ sdAfterStart' = (sdAfterStart \/ started)
    /\ mutex' = NULL
    /\ pc' = [pc EXCEPT ![t] = AfterShutdown(t)]
    /\ UNCHANGED << registryVars, metricVars, closed, serving, everServed, inflight,
                    stopWaiting, server, userShutdowns, startVars, runVars, callVars,
                    crashed >>
    /\ UNCHANGED asideVars

\* Shutdown calling server.Stop() itself, under the mutex, instead of handing
\* it to a new task: Stop returns only once no request is in flight.
ShutdownBodyStopsInline(t) ==
    /\ ~crashed
    /\ pc[t] = "sd_locked"
    /\ IF server # NULL
       THEN /\ inflight = 0
            /\ server' = NULL
            /\ closed' = TRUE
            /\ stopInitiated' = stopInitiated + 1
       ELSE UNCHANGED << server, closed, stopInitiated >>
    /\ sdAfterStart' = (sdAfterStart \/ started)
    /\ mutex' = NULL
    /\ pc' = [pc EXCEPT ![t] = AfterShutdown(t)]
    /\ UNCHANGED << registryVars, metricVars, serving, everServed, inflight,
                    stopPending, stopWaiting, userShutdowns, startVars, runVars,
                    callVars, crashed >>
    /\ UNCHANGED asideVars

\* Shutdown, under the mutex: if the handle is set, clear it and hand
\* server.Stop() to a new task; then the deferred Unlock and return nil.
ShutdownBody(t) ==
    /\ ~crashed
    /\ pc[t] = "sd_locked"
    /\ IF server # NULL
       THEN /\ server' = NULL
            /\ stopPending' = stopPending + 1
            /\ stopInitiated' = stopInitiated + 1
       ELSE UNCHANGED << server, stopPending, stopInitiated >>
    /\ sdAfterStart' = (sdAfterStart \/ started)
    /\ mutex' = NULL
    /\ pc' = [pc EXCEPT ![t] = AfterShutdown(t)]
    /\ UNCHANGED << registryVars, metricVars, closed, serving, everServed, inflight,
                    stopWaiting, userShutdowns, startVars, runVars, callVars, crashed >>
    /\ UNCHANGED asideVars

\* The embedding program calls Shutdown from a task of its own.
UserShutdown ==
    /\ ~crashed
    /\ pc["user"] = "idle"
    /\ userShutdowns < MaxUserShutdowns
    /\ userShutdowns' = userShutdowns + 1
    /\ pc' = [pc EXCEPT !["user"] = "sd_enter"]
    /\ UNCHANGED << registryVars, metricVars, thriftVars, server, stopInitiated,
                    sdAfterStart, startVars, runVars, callVars, mutex, crashed >>
    /\ UNCHANGED asideVars

\* The task spawned by Shutdown runs server.Stop(): the server is marked
\* closed and its listener interrupted ...
StopBegin ==
    /\ ~crashed
    /\ stopPending > 0
    /\ stopPending' = stopPending - 1
    /\ stopWaiting' = stopWaiting + 1
    /\ closed' = TRUE
    /\ UNCHANGED << registryVars, metricVars, serving, everServed, inflight,
                    shutdownVars, startVars, runVars, callVars, mutex, pc, crashed >>
    /\ UNCHANGED asideVars

\* ... and Stop returns once no request is in flight.
StopFinish ==
    /\ ~crashed
    /\ stopWaiting > 0
    /\ inflight = 0
    /\ stopWaiting' = stopWaiting - 1
    /\ UNCHANGED << registryVars, metricVars, closed, serving, everServed, inflight,
                    stopPending, shutdownVars, startVars, runVars, callVars, mutex,
                    pc, crashed >>
    /\ UNCHANGED asideVars

\* ------------------------------------------------------------- Start
\* A Start that sets s.started as soon as it holds the mutex.
StartLockSetsStarted ==
    /\ ~crashed
    /\ pc["start"] = "lock"
    /\ mutex = NULL
    /\ mutex' = "start"
    /\ started' = TRUE
    /\ pc' = [pc EXCEPT !["start"] = "register"]
    /\ UNCHANGED << registryVars, metricVars, thriftVars, shutdownVars, transport,
                    promServer, prometheusPort, regExtCalls, startErr, promState,
                    runVars, callVars, crashed >>
    /\ UNCHANGED asideVars

\* Start: s.mutex.Lock() of the inner function.
StartLock ==
    /\ ~crashed
    /\ pc["start"] = "lock"
    /\ mutex = NULL
    /\ mutex' = "start"
    /\ pc' = [pc EXCEPT !["start"] = "register"]
    /\ UNCHANGED << registryVars, metricVars, thriftVars, shutdownVars, startVars,
                    runVars, callVars, crashed >>
    /\ UNCHANGED asideVars

\* genRegistry and s.serverClient.RegisterExtension: the host answers with a
\* transport error, a nonzero status or success. On failure the inner
\* function returns the error (deferred Unlock) and Start returns it.
StartRegisterExtension ==
    /\ ~crashed
    /\ pc["start"] = "register"
    /\ regExtCalls' = regExtCalls + 1
    /\ \E outcome \in {"ok", "transport error", "nonzero status"} :
        IF outcome = "ok"
        THEN /\ pc' = [pc EXCEPT !["start"] = "open"]
             /\ UNCHANGED << mutex, startErr >>
        ELSE /\ startErr' = "registering extension: " \o outcome
             /\ mutex' = NULL
             /\ pc' = [pc EXCEPT !["start"] = "send"]
    /\ UNCHANGED << registryVars, metricVars, thriftVars, shutdownVars, transport,
                    started, promServer, prometheusPort, promState, runVars,
                    callVars, crashed >>
    /\ UNCHANGED asideVars

\* OpenServer with the server handle stored before the error is looked at.
StartOpenServerStoresHandle ==
    /\ ~crashed
    /\ pc["start"] = "open"
    /\ server' = "srv"
    /\ \E opened \in BOOLEAN :
        IF opened
        THEN /\ transport' = "listener"
             /\ pc' = [pc EXCEPT !["start"] = "setup"]
             /\ UNCHANGED << mutex, startErr >>
        ELSE /\ transport' = NULL
             /\ startErr' = "opening server socket"
             /\ mutex' = NULL
             /\ pc' = [pc EXCEPT !["start"] = "send"]
    /\ UNCHANGED << registryVars, metricVars, thriftVars, stopInitiated,
                    sdAfterStart, userShutdowns, started, promServer,
                    prometheusPort, regExtCalls, promState, runVars, callVars,
                    crashed >>
    /\ UNCHANGED asideVars

\* s.transport, err = transport.OpenServer(listenPath, s.timeout)
StartOpenServer ==
    /\ ~crashed
    /\ pc["start"] = "open"
    /\ \E opened \in BOOLEAN :
        IF opened
        THEN /\ transport' = "listener"
             /\ pc' = [pc EXCEPT !["start"] = "setup"]
             /\ UNCHANGED << mutex, startErr >>
        ELSE /\ transport' = NULL
             /\ startErr' = "opening server socket"
             /\ mutex' = NULL
             /\ pc' = [pc EXCEPT !["start"] = "send"]
    /\ UNCHANGED << registryVars, metricVars, thriftVars, shutdownVars, started,
                    promServer, prometheusPort, regExtCalls, promState, runVars,
                    callVars, crashed >>
    /\ UNCHANGED asideVars

\* s.server = NewTSimpleServer2(...); the prometheus server and the three
\* instruments if prometheusPort > 0; s.started = true; deferred Unlock.
StartSetup ==
    /\ ~crashed
    /\ pc["start"] = "setup"
    /\ server' = "srv"
    /\ IF prometheusPort > 0
       THEN /\ promServer' = "prom"
            /\ pluginCounter' = ZeroVec
            /\ pluginGauge' = ZeroVec
            /\ pluginTime' = ZeroVec
       ELSE UNCHANGED << promServer, metricVars >>
    /\ started' = TRUE
    /\ mutex' = NULL
    /\ pc' = [pc EXCEPT !["start"] = "unlocked"]
    /\ UNCHANGED << registryVars, thriftVars, stopInitiated, sdAfterStart,
                    userShutdowns, transport, prometheusPort, regExtCalls, startErr,
                    promState, runVars, callVars, crashed >>
    /\ UNCHANGED asideVars

\* if s.promServer != nil { go s.promServer.ListenAndServe() }
StartMetrics ==
    /\ ~crashed
    /\ pc["start"] = "unlocked"
    /\ pc' = [pc EXCEPT !["start"] = "serve",
                        !["metrics"] = IF promServer # NULL THEN "listen" ELSE @]
    /\ UNCHANGED << registryVars, metricVars, thriftVars, shutdownVars, startVars,
                    runVars, callVars, mutex, crashed >>
    /\ UNCHANGED asideVars

\* The metrics task: ListenAndServe serves unless the endpoint was already
\* shut down, in which case it returns at once.
MetricsListenAndServe ==
    /\ ~crashed
    /\ pc["metrics"] = "listen"
    /\ promState' = IF promState = "shutdown" THEN "shutdown" ELSE "listening"
    /\ pc' = [pc EXCEPT !["metrics"] = "done"]
    /\ UNCHANGED << registryVars, metricVars, thriftVars, shutdownVars, transport,
                    started, promServer, prometheusPort, regExtCalls, startErr,
                    runVars, callVars, mutex, crashed >>
    /\ UNCHANGED asideVars

\* server.Serve() is entered: the accept loop runs, unless Stop has already
\* closed the server, in which case Serve returns (nil or a listen error).
ServeBegin ==
    /\ ~crashed
    /\ pc["start"] = "serve"
    /\ IF closed
       THEN /\ \E e \in {NULL, "serve error"} : startErr' = e
            /\ pc' = [pc EXCEPT !["start"] = "send"]
            /\ UNCHANGED << serving, everServed >>
       ELSE /\ serving' = TRUE
            /\ everServed' = TRUE
            /\ pc' = [pc EXCEPT !["start"] = "serving"]
            /\ UNCHANGED startErr
    /\ UNCHANGED << registryVars, metricVars, closed, inflight, stopPending,
                    stopWaiting, shutdownVars, transport, started, promServer,
                    prometheusPort, regExtCalls, promState, runVars, callVars,
                    mutex, crashed >>
    /\ UNCHANGED asideVars

\* server.Serve() returns: nil once Stop has closed the server, or an error
\* of the accept loop.
ServeReturn ==
    /\ ~crashed
    /\ pc["start"] = "serving"
    /\ \/ closed /\ startErr' = NULL
       \/ startErr' = "serve error"
    /\ serving' = FALSE
    /\ pc' = [pc EXCEPT !["start"] = "send"]
    /\ UNCHANGED << registryVars, metricVars, closed, everServed, inflight,
                    stopPending, stopWaiting, shutdownVars, transport, started,
                    promServer, prometheusPort, regExtCalls, promState, runVars,
                    callVars, mutex, crashed >>
    /\ UNCHANGED asideVars

\* ------------------------------------------------------------- Run
\* Run: errc := make(chan error); go func() { errc <- s.Start() }(); the
\* watchdog task is started.
RunBegin ==
    /\ ~crashed
    /\ pc["run"] = "idle"
    /\ pc' = [pc EXCEPT !["run"] = "recv", !["start"] = "lock", !["watchdog"] = "sleep"]
    /\ UNCHANGED << registryVars, metricVars, thriftVars, shutdownVars, startVars,
                    runVars, callVars, mutex, crashed >>
    /\ UNCHANGED asideVars

\* The watchdog: time.Sleep(s.pingInterval); s.serverClient.Ping(). A
\* transport error or a nonzero status leads to the send on errc and the
\* break; otherwise the loop goes round.
WatchdogPing ==
    /\ ~crashed
    /\ pc["watchdog"] = "sleep"
    /\ \E outcome \in {"ok", "transport error", "nonzero status"} :
        IF outcome = "ok"
        THEN UNCHANGED << pc, pingFailures >>
        ELSE /\ pingFailures' = pingFailures + 1
             /\ pc' = [pc EXCEPT !["watchdog"] = "send"]
    /\ UNCHANGED << registryVars, metricVars, thriftVars, shutdownVars, startVars,
                    errc, errcFrom, signals, runTrace, runResult, callVars, mutex,
                    crashed >>
    /\ UNCHANGED asideVars

\* err := <-errc in Run meets the send of the Start task (unbuffered channel).
RunReceiveStart ==
    /\ ~crashed
    /\ pc["run"] = "recv"
    /\ pc["start"] = "send"
    /\ errc' = startErr
    /\ errcFrom' = "start"
    /\ pc' = [pc EXCEPT !["run"] = "prom", !["start"] = "done"]
    /\ UNCHANGED << registryVars, metricVars, thriftVars, shutdownVars, startVars,
                    pingFailures, signals, runTrace, runResult, callVars, mutex,
                    crashed >>
    /\ UNCHANGED asideVars

\* The watchdog going round its loop again after the send (no break).
RunReceiveWatchdogNoBreak ==
    /\ ~crashed
    /\ pc["run"] = "recv"
    /\ pc["watchdog"] = "send"
    /\ errc' = "extension ping failed"
    /\ errcFrom' = "watchdog"
    /\ signals' = signals + 1
    /\ pc' = [pc EXCEPT !["run"] = "prom", !["watchdog"] = "sleep"]
    /\ UNCHANGED << registryVars, metricVars, thriftVars, shutdownVars, startVars,
                    pingFailures, runTrace, runResult, callVars, mutex, crashed >>
    /\ UNCHANGED asideVars

\* err := <-errc in Run meets the send of the watchdog, which then breaks
\* out of its loop.
RunReceiveWatchdog ==
    /\ ~crashed
    /\ pc["run"] = "recv"
    /\ pc["watchdog"] = "send"
    /\ errc' = "extension ping failed"
    /\ errcFrom' = "watchdog"
    /\ signals' = signals + 1
    /\ pc' = [pc EXCEPT !["run"] = "prom", !["watchdog"] = "done"]
    /\ UNCHANGED << registryVars, metricVars, thriftVars, shutdownVars, startVars,
                    pingFailures, runTrace, runResult, callVars, mutex, crashed >>
    /\ UNCHANGED asideVars

\* Run returning at once on a nil error, without shutting anything down.
RunPromShutdownOnErrorOnly ==
    /\ ~crashed
    /\ pc["run"] = "prom"
    /\ IF errc = NULL
       THEN /\ pc' = [pc EXCEPT !["run"] = "returning"]
            /\ UNCHANGED << promState, runTrace >>
       ELSE /\ promState' = IF promServer # NULL THEN "shutdown" ELSE promState
            /\ runTrace' = IF promServer # NULL
                           THEN runTrace \o << "promShutdown", "Shutdown" >>
                           ELSE Append(runTrace, "Shutdown")
            /\ pc' = [pc EXCEPT !["run"] = "sd_enter"]
    /\ UNCHANGED << registryVars, metricVars, thriftVars, shutdownVars, transport,
                    started, promServer, prometheusPort, regExtCalls, startErr, errc,
                    errcFrom, pingFailures, signals, runResult, callVars, mutex,
                    crashed >>
    /\ UNCHANGED asideVars

\* if s.promServer != nil { s.promServer.Shutdown(ctx) }, then Run calls
\* s.Shutdown.
RunPromShutdown ==
    /\ ~crashed
    /\ pc["run"] = "prom"
    /\ IF promServer # NULL
       THEN /\ promState' = "shutdown"
            /\ runTrace' = runTrace \o << "promShutdown", "Shutdown" >>
       ELSE /\ runTrace' = Append(runTrace, "Shutdown")
            /\ UNCHANGED promState
    /\ pc' = [pc EXCEPT !["run"] = "sd_enter"]
    /\ UNCHANGED << registryVars, metricVars, thriftVars, shutdownVars, transport,
                    started, promServer, prometheusPort, regExtCalls, startErr, errc,
                    errcFrom, pingFailures, signals, runResult, callVars, mutex,
                    crashed >>
    /\ UNCHANGED asideVars

\* Shutdown returned nil: Run returns the error it received.
RunReturn ==
    /\ ~crashed
    /\ pc["run"] = "returning"
    /\ runResult' = errc
    /\ runTrace' = Append(runTrace, "return")
    /\ pc' = [pc EXCEPT !["run"] = "done"]
    /\ UNCHANGED << registryVars, metricVars, thriftVars, shutdownVars, startVars,
                    errc, errcFrom, pingFailures, signals, callVars, mutex, crashed >>
    /\ UNCHANGED asideVars

\* ------------------------------------------------------------- Call
\* An unknown registry answered with a zero status code.
UnknownRegistryStatusOK(registryName) ==
    Response(Status(0, "Unknown registry: " \o registryName), <<>>)

\* The response Call builds itself for an unknown registry.
UnknownRegistry(registryName) ==
    Response(Status(1, "Unknown registry: " \o registryName), <<>>)

\* An unknown item answered with the message of an unknown registry.
UnknownItemAsRegistry(item) ==
    Response(Status(1, "Unknown registry: " \o item), <<>>)

\* The response Call builds itself for an unknown item of a known registry.
UnknownItem(item) ==
    Response(Status(1, "Unknown registry item: " \o item), <<>>)

\* A plugin's failure status replaced by a response of the dispatcher's own.
CallResponseMasked(response) ==
    IF response.status.code # 0
    THEN Response(Status(1, "plugin call failed"), <<>>)
    ELSE response

\* return &response, nil
CallResponse(response) == response

\* The request handed to plugin.Call.
PluginRequest(request) == request

Key(call) == << call.item, call.request.action >>

Finished(registryName, item, request, plugin, pluginCalls, seen, answer, response) ==
    [ kind |-> "call", registry |-> registryName, item |-> item, request |-> request,
      plugin |-> plugin, pluginCalls |-> pluginCalls, seen |-> seen,
      answer |-> answer, response |-> response, err |-> NULL ]

\* The host sends Call(registry, item, request) to the serving extension:
\* the lookups of the registry and of the item. An unknown registry or item
\* is answered at once; otherwise the plugin is found and the call goes on.
CallLookup(registryName, item, request) ==
    /\ ~crashed
    /\ pc["host"] = "idle"
    /\ serving /\ ~closed
    /\ requests < MaxRequests
    /\ requests' = requests + 1
    /\  IF registryName \notin DOMAIN registry
        THEN /\ lastCall' = Finished(registryName, item, request, NotFound, 0,
                                     NoRequest, NoResponse, UnknownRegistry(registryName))
             /\ UNCHANGED << pc, cur, inflight, dispatched >>
        ELSE IF item \notin DOMAIN registry[registryName]
        THEN /\ lastCall' = Finished(registryName, item, request, NotFound, 0,
                                     NoRequest, NoResponse, UnknownItem(item))
             /\ UNCHANGED << pc, cur, inflight, dispatched >>
        ELSE /\ cur' = [ kind |-> "call", registry |-> registryName, item |-> item,
                         request |-> request, plugin |-> registry[registryName][item],
                         pluginCalls |-> 0, seen |-> NoRequest, answer |-> NoResponse ]
             /\ inflight' = inflight + 1
             /\ dispatched' = IF IsNil(pluginCounter) THEN dispatched
                              ELSE Append(dispatched, << item, request.action >>)
             /\ pc' = [pc EXCEPT !["host"] = "counter"]
             /\ UNCHANGED lastCall
    /\ UNCHANGED << registryVars, metricVars, closed, serving, everServed,
                    stopPending, stopWaiting, shutdownVars, startVars, runVars,
                    mutex, crashed >>
    /\ UNCHANGED asideVars

\* A counter step that counts only the "generate" requests.
CallCounterGenerateOnly ==
    /\ ~crashed
    /\ pc["host"] = "counter"
    /\ pluginCounter' = IF ~IsNil(pluginCounter) /\ cur.request.action = "generate"
                        THEN [pluginCounter EXCEPT ![Key(cur)] = @ + 1]
                        ELSE pluginCounter
    /\ pc' = [pc EXCEPT !["host"] = "plugin"]
    /\ UNCHANGED << registryVars, pluginGauge, pluginTime, thriftVars, shutdownVars,
                    startVars, runVars, callVars, mutex, crashed >>
    /\ UNCHANGED asideVars

\* s.pluginCounter.WithLabelValues(item, request["action"]).Inc() and the
\* start of the duration timer, when the instruments exist.
CallCounter ==
    /\ ~crashed
    /\ pc["host"] = "counter"
    /\ pluginCounter' = IF ~IsNil(pluginCounter)
                        THEN [pluginCounter EXCEPT ![Key(cur)] = @ + 1]
                        ELSE pluginCounter
    /\ pc' = [pc EXCEPT !["host"] = "plugin"]
    /\ UNCHANGED << registryVars, pluginGauge, pluginTime, thriftVars, shutdownVars,
                    startVars, runVars, callVars, mutex, crashed >>
    /\ UNCHANGED asideVars

\* response := plugin.Call(context.Background(), request). The plugin
\* answers with any of its responses; a plugin asked to shut the extension
\* down calls s.Shutdown from inside its Call.
PluginCall(answer) ==
    /\ ~crashed
    /\ pc["host"] = "plugin"
    /\ cur' = [cur EXCEPT !.pluginCalls = @ + 1,
                          !.seen = PluginRequest(cur.request),
                          !.answer = answer]
    /\ pc' = [pc EXCEPT !["host"] = IF cur.request.action = "shutdown"
                                    THEN "sd_enter" ELSE "gauge"]
    /\ UNCHANGED << registryVars, metricVars, thriftVars, shutdownVars, startVars,
                    runVars, requests, lastCall, dispatched, mutex, crashed >>
    /\ UNCHANGED asideVars

\* The gauge is set to the number of rows, the deferred timer observes the
\* duration, and Call returns the plugin's response.
CallReturn ==
    /\ ~crashed
    /\ pc["host"] = "gauge"
    /\ pluginGauge' = IF ~IsNil(pluginGauge)
                      THEN [pluginGauge EXCEPT ![Key(cur)] = Len(cur.answer.response)]
                      ELSE pluginGauge
    /\ pluginTime' = IF ~IsNil(pluginTime)
                     THEN [pluginTime EXCEPT ![Key(cur)] = @ + 1]
                     ELSE pluginTime
    /\ lastCall' = Finished(cur.registry, cur.item, cur.request, cur.plugin,
                            cur.pluginCalls, cur.seen, cur.answer,
                            CallResponse(cur.answer))
    /\ cur' = NoCall
    /\ inflight' = inflight - 1
    /\ pc' = [pc EXCEPT !["host"] = "idle"]
    /\ UNCHANGED << registryVars, pluginCounter, closed, serving, everServed,
                    stopPending, stopWaiting, shutdownVars, startVars, runVars,
                    requests, dispatched, mutex, crashed >>
    /\ UNCHANGED asideVars

\* ------------------------------------------------------------- waitStarted
\* waitStarted, the polling helper of the tests: s.mutex.Lock().
WaitStartedLock ==
    /\ ~crashed
    /\ pc["waiter"] = "poll"
    /\ mutex = NULL
    /\ mutex' = "waiter"
    /\ pc' = [pc EXCEPT !["waiter"] = "locked"]
    /\ UNCHANGED << registryVars, metricVars, thriftVars, shutdownVars, startVars,
                    runVars, callVars, crashed >>
    /\ UNCHANGED asideVars

\* started := s.started; s.mutex.Unlock(); the loop ends (after a short
\* sleep) once started was read true, and polls again otherwise.
WaitStartedRead ==
    /\ ~crashed
    /\ pc["waiter"] = "locked"
    /\ mutex' = NULL
    /\ pc' = [pc EXCEPT !["waiter"] = IF started THEN "done" ELSE "poll"]
    /\ UNCHANGED << registryVars, metricVars, thriftVars, shutdownVars, startVars,
                    runVars, callVars, crashed >>
    /\ UNCHANGED asideVars

\* ------------------------------------------------------------- system
\* The tasks of the program, each with the inputs given to it.
RegistrationPhase(argLists) ==
    \/ \E plugins \in argLists : RegisterPluginLock(plugins)
    \/ RegisterPluginInsert
    \/ RegisterPluginPanic
    \/ RegisterPluginReturn

StartTask ==
    \/ StartLock
    \/ StartRegisterExtension
    \/ StartOpenServer
    \/ StartSetup
    \/ StartMetrics
    \/ MetricsListenAndServe
    \/ ServeBegin
    \/ ServeReturn

StopTask ==
    \/ StopBegin
    \/ StopFinish

Dispatch(registries, items, reqs, answers) ==
    \/ \E registryName \in registries, item \in items, request \in reqs :
           CallLookup(registryName, item, request)
    \/ CallCounter
    \/ \E answer \in answers : PluginCall(answer)
    \/ ShutdownLock("host")
    \/ ShutdownBody("host")
    \/ CallReturn

RunTask ==
    \/ WatchdogPing
    \/ RunReceiveStart
    \/ RunReceiveWatchdog
    \/ RunPromShutdown
    \/ ShutdownLock("run")
    \/ ShutdownBody("run")
    \/ RunReturn

UserShutdownTask ==
    \/ UserShutdown
    \/ ShutdownLock("user")
    \/ ShutdownBody("user")

\* The registration phase alone: the embedding program makes RegisterPlugin
\* calls with any argument lists.
NextRegistry == RegistrationPhase(MoreArgLists)

SpecRegistry == Init /\ [][NextRegistry]_vars

\* Registration with any argument lists, then Run; the host dispatches any
\* request to the serving extension, and a plugin asked to may shut the
\* extension down from inside its Call.
NextDispatch ==
    \/ (pc["run"] = "idle" /\ RegistrationPhase(ArgLists))
    \/ (pc["user"] = "idle" /\ RunBegin)
    \/ StartTask
    \/ Dispatch(CallRegistries, CallItems, Requests, PluginResponses)
    \/ StopTask

SpecDispatch == Init /\ [][NextDispatch]_vars

\* The example extensions (cmd/examples): one table plugin is
\* registered and Run is called; the host sends requests for that table or
\* for an unknown registry while the watchdog pings the host, and the
\* program may call Shutdown from another task at any time.
ExampleReply == Response(Status(0, "OK"), <<"row">>)

Next ==
    \/ (regCalls = 0 /\ RegisterPluginLock(<<"p1">>))
    \/ RegisterPluginInsert
    \/ RegisterPluginReturn
    \/ RunBegin
    \/ StartTask
    \/ RunTask
    \/ UserShutdownTask
    \/ Dispatch({"table", "bogus"}, {"t1"}, Requests, {ExampleReply})
    \/ StopTask

Spec == Init /\ [][Next]_vars

\* The fairness the scheduling gives the tasks that take the mutex: a task
\* holding it runs on until it releases it, and a task waiting in Lock gets
\* the mutex if it is free again and again (sync.Mutex hands a starving
\* waiter the lock).
MutexFairness ==
    /\ \A t \in ShutdownCallers :
        SF_vars(ShutdownLock(t)) /\ WF_vars(ShutdownBody(t))
    /\ WF_vars(RegisterPluginInsert)
    /\ WF_vars(RegisterPluginReturn)
    /\ WF_vars(StartRegisterExtension)
    /\ WF_vars(StartOpenServer)
    /\ WF_vars(StartSetup)

\* The same program with a host whose every request asks the table plugin
\* to shut the extension down.
NextShutdownRequests ==
    \/ (regCalls = 0 /\ RegisterPluginLock(<<"p1">>))
    \/ RegisterPluginInsert
    \/ RegisterPluginReturn
    \/ RunBegin
    \/ StartTask
    \/ RunTask
    \/ UserShutdownTask
    \/ Dispatch({"table"}, {"t1"}, {[action |-> "shutdown"]}, {ExampleReply})
    \/ StopTask

FairSpec == Init /\ [][NextShutdownRequests]_vars /\ MutexFairness

\* ------------------------------------------------------------- mutable table
\* The values of a row handed to Insert or Update are float64 and string;
\* a float64 is written here in tenths (25 is 2.5).
Abs(x) == IF x < 0 THEN -x ELSE x
SignOf(x) == IF x < 0 THEN "-" ELSE ""
\* fmt.Sprintf("%d", int(x)): the conversion to int truncates towards zero.
FormatD(x) == ToString(IF x < 0 THEN -(Abs(x) \div 10) ELSE x \div 10)
\* fmt.Sprintf("%v", x): the shortest decimal form.
FormatV(x) ==
    SignOf(x) \o ToString(Abs(x) \div 10) \o
        (IF Abs(x) % 10 = 0 THEN "" ELSE "." \o ToString(Abs(x) % 10))
\* fmt.Sprintf("%f", x): six decimals.
FormatF(x) ==
    SignOf(x) \o ToString(Abs(x) \div 10) \o "." \o ToString(Abs(x) % 10) \o "00000"
\* fmt.Sprintf("%s", x) of a string.
FormatS(x) == x

\* The map literal both Insert and Update build from the row values.
MakeRow(values) ==
    [ i |-> FormatD(values[1]), b |-> FormatV(values[2]),
      d |-> FormatF(values[3]), t |-> FormatS(values[4]) ]

\* Row values the host may send, and the row ids it may name.
RowInputs == { << 56789, 120, 25, "new" >>, << -15, 7, 0, "other" >> }
RowIDs == 0 .. (MaxRows - 1)

\* A delete that drops the row after the one named.
DeleteRowsNext(data, rowID) ==
    SubSeq(data, 1, rowID + 1) \o SubSeq(data, rowID + 3, Len(data))

\* append(mutableData, row)
InsertRows(data, row) == Append(data, row)
\* mutableData[rowID] = row
UpdateRows(data, rowID, row) == [data EXCEPT ![rowID + 1] = row]
\* append(mutableData[:rowID], mutableData[rowID+1:]...)
DeleteRows(data, rowID) ==
    SubSeq(data, 1, rowID) \o SubSeq(data, rowID + 2, Len(data))
\* The index and slice bounds checks that do not panic.
InRange(data, rowID) == rowID >= 0 /\ rowID < Len(data)

\* main: mutableData = []map[string]string{...}, before the server runs.
TableMain ==
    /\ ~crashed
    /\ arrayGen = 0
    /\ mutableData' = InitialRows
    /\ arrayGen' = 1
    /\ UNCHANGED << lock, spare, tpc, top, alias, lastOp, tableOps, clientVars,
                    serverVars, crashed >>

\* MutableGenerate: lock.RLock(), granted while no writer holds the lock.
MutableGenerateRLock(t) ==
    /\ ~crashed
    /\ arrayGen > 0
    /\ tpc[t] = "idle"
    /\ tableOps < MaxTableOps
    /\ lock.writer = NULL
    /\ lock' = [lock EXCEPT !.readers = @ \cup {t}]
    /\ tpc' = [tpc EXCEPT ![t] = "scan"]
    /\ tableOps' = tableOps + 1
    /\ UNCHANGED << mutableData, arrayGen, spare, top, alias, lastOp, clientVars,
                    serverVars, crashed >>

\* return mutableData, nil and the deferred RUnlock: the result is the slice
\* itself, pointing into the backing array of that moment.
MutableGenerateReturn(t) ==
    /\ ~crashed
    /\ tpc[t] = "scan"
    /\ alias' = [alias EXCEPT ![t] = arrayGen]
    /\ lock' = [lock EXCEPT !.readers = @ \ {t}]
    /\ tpc' = [tpc EXCEPT ![t] = "respond"]
    /\ UNCHANGED << mutableData, arrayGen, spare, top, lastOp, tableOps, clientVars,
                    serverVars, crashed >>

\* The handler reads the rows of the returned slice into the response sent
\* to the host, and is done with the slice.
TableRespond(t) ==
    /\ ~crashed
    /\ tpc[t] = "respond"
    /\ alias' = [alias EXCEPT ![t] = NoAlias]
    /\ tpc' = [tpc EXCEPT ![t] = "idle"]
    /\ UNCHANGED << mutableData, lock, arrayGen, spare, top, lastOp, tableOps,
                    clientVars, serverVars, crashed >>

\* lock.Lock() of a writer, granted while nobody holds the lock.
WriterLock(t, op) ==
    /\ ~crashed
    /\ arrayGen > 0
    /\ tpc[t] = "idle"
    /\ tableOps < MaxTableOps
    /\ lock.writer = NULL
    /\ lock.readers = {}
    /\ lock' = [lock EXCEPT !.writer = t]
    /\ top' = [top EXCEPT ![t] = op]
    /\ tpc' = [tpc EXCEPT ![t] = "write"]
    /\ tableOps' = tableOps + 1
    /\ UNCHANGED << mutableData, arrayGen, spare, alias, lastOp, clientVars,
                    serverVars, crashed >>

\* lock.Unlock() after the write: the operation is finished.
WriterUnlock(t, after) ==
    /\ mutableData' = after
    /\ lock' = [lock EXCEPT !.writer = NULL]
    /\ lastOp' = [ kind |-> top[t].kind, rowID |-> top[t].rowID, row |-> top[t].row,
                   before |-> top[t].before, after |-> after ]
    /\ top' = [top EXCEPT ![t] = NoOp]
    /\ tpc' = [tpc EXCEPT ![t] = "idle"]

\* MutableInsert up to lock.Lock().
MutableInsertLock(t, values) ==
    /\ Len(mutableData) < MaxRows
    /\ WriterLock(t, [ kind |-> "insert", rowID |-> Len(mutableData),
                       row |-> MakeRow(values), before |-> mutableData ])

\* mutableData = append(mutableData, row); lock.Unlock(). append writes in
\* place when the array has room and into a new array otherwise, whose
\* spare capacity is up to the runtime.
MutableInsertAppend(t) ==
    /\ ~crashed
    /\ tpc[t] = "write"
    /\ top[t].kind = "insert"
    /\ WriterUnlock(t, InsertRows(mutableData, top[t].row))
    /\ IF spare > 0
       THEN /\ spare' = spare - 1
            /\ UNCHANGED arrayGen
       ELSE /\ arrayGen' = arrayGen + 1
            /\ \E room \in {0, 1} : spare' = room
    /\ UNCHANGED << alias, tableOps, clientVars, serverVars, crashed >>

\* MutableUpdate up to lock.Lock().
MutableUpdateLock(t, rowID, values) ==
    WriterLock(t, [ kind |-> "update", rowID |-> rowID,
                    row |-> MakeRow(values), before |-> mutableData ])

\* mutableData[rowID] = row; lock.Unlock().
MutableUpdateStore(t) ==
    /\ ~crashed
    /\ tpc[t] = "write"
    /\ top[t].kind = "update"
    /\ InRange(mutableData, top[t].rowID)
    /\ WriterUnlock(t, UpdateRows(mutableData, top[t].rowID, top[t].row))
    /\ UNCHANGED << arrayGen, spare, alias, tableOps, clientVars, serverVars, crashed >>

\* MutableDelete up to lock.Lock().
MutableDeleteLock(t, rowID) ==
    WriterLock(t, [ kind |-> "delete", rowID |-> rowID,
                    row |-> NoRow, before |-> mutableData ])

\* mutableData = append(mutableData[:rowID], mutableData[rowID+1:]...);
\* lock.Unlock(). The rows move down inside the same array.
MutableDeleteAppend(t) ==
    /\ ~crashed
    /\ tpc[t] = "write"
    /\ top[t].kind = "delete"
    /\ InRange(mutableData, top[t].rowID)
    /\ WriterUnlock(t, DeleteRows(mutableData, top[t].rowID))
    /\ spare' = spare + 1
    /\ UNCHANGED << arrayGen, alias, tableOps, clientVars, serverVars, crashed >>

\* Update or Delete of a row id outside the store: the index or slice
\* expression panics between Lock and Unlock, so the lock stays held; the
\* process ends unless the panic is recovered above.
MutableWritePanic(t) ==
    /\ ~crashed
    /\ tpc[t] = "write"
    /\ top[t].kind \in {"update", "delete"}
    /\ ~InRange(mutableData, top[t].rowID)
    /\ tpc' = [tpc EXCEPT ![t] = "panicked"]
    /\ \E recovered \in BOOLEAN : crashed' = ~recovered
    /\ UNCHANGED << mutableData, lock, arrayGen, spare, top, alias, lastOp, tableOps,
                    clientVars, serverVars >>

\* The host runs any table operation on any of its connections.
NextTable ==
    \/ TableMain
    \/ \E t \in Handlers :
        \/ MutableGenerateRLock(t)
        \/ MutableGenerateReturn(t)
        \/ TableRespond(t)
        \/ \E values \in RowInputs : MutableInsertLock(t, values)
        \/ MutableInsertAppend(t)
        \/ \E rowID \in RowIDs, values \in RowInputs : MutableUpdateLock(t, rowID, values)
        \/ MutableUpdateStore(t)
        \/ \E rowID \in RowIDs : MutableDeleteLock(t, rowID)
        \/ MutableDeleteAppend(t)
        \/ MutableWritePanic(t)

SpecTable == Init /\ [][NextTable]_vars

\* ------------------------------------------------------------- client
\* The rows of TestQueryRows, each a map with the one column "1".
QueryRowValues == { [c \in {"1"} |-> "1"], [c \in {"1"} |-> "2"] }

\* What the host (the mock of the test) may answer to a query: a transport
\* error, or a response with no status, a zero or a nonzero status, and rows.
HostReplies ==
    { [err |-> e, status |-> st, response |-> rows] :
        e \in {NULL, "Boom"},
        st \in {NoStatus, Status(0, "OK"), Status(1, "bad query")},
        rows \in SeqsUpTo(QueryRowValues, MaxReplyRows) }

\* A QueryRows that does not look at the status code.
QueryRowsIgnoresStatus(reply) ==
    IF reply.err # NULL
    THEN [err |-> "transport error", rows |-> <<>>]
    ELSE IF reply.status = NoStatus
    THEN [err |-> "query returned nil status", rows |-> <<>>]
    ELSE [err |-> NULL, rows |-> reply.response]

\* ExtensionManagerClient.QueryRows: the rows of the host's response, or an
\* error for a transport error, a missing status or a nonzero status code.
QueryRows(reply) ==
    IF reply.err # NULL
    THEN [err |-> "transport error", rows |-> <<>>]
    ELSE IF reply.status = NoStatus
    THEN [err |-> "query returned nil status", rows |-> <<>>]
    ELSE IF reply.status.code # 0
    THEN [err |-> "query returned error: " \o reply.status.message, rows |-> <<>>]
    ELSE [err |-> NULL, rows |-> reply.response]

\* ExtensionManagerClient.QueryRow: QueryRows, then exactly one row expected.
QueryRow(reply) ==
    LET res == QueryRows(reply)
    IN  IF res.err # NULL THEN res
        ELSE IF Len(res.rows) # 1
        THEN [err |-> "expected 1 row", rows |-> <<>>]
        ELSE [err |-> NULL, rows |-> << res.rows[1] >>]

\* client.QueryRows(sql) with the host answering reply.
ClientQueryRows(reply) ==
    /\ qResult' = [op |-> "QueryRows", reply |-> reply,
                   err |-> QueryRows(reply).err, rows |-> QueryRows(reply).rows]
    /\ UNCHANGED << tableVars, serverVars, crashed >>

\* client.QueryRow(sql) with the host answering reply.
ClientQueryRow(reply) ==
    /\ qResult' = [op |-> "QueryRow", reply |-> reply,
                   err |-> QueryRow(reply).err, rows |-> QueryRow(reply).rows]
    /\ UNCHANGED << tableVars, serverVars, crashed >>

NextClient ==
    \E reply \in HostReplies :
        \/ ClientQueryRows(reply)
        \/ ClientQueryRow(reply)

SpecClient == Init /\ [][NextClient]_vars

\* The server as the package's tests drive it: Run in one task, a task
\* polling waitStarted, and a Shutdown from the test at any time.
NextLifecycle ==
    \/ RunBegin
    \/ StartTask
    \/ RunTask
    \/ UserShutdownTask
    \/ StopTask
    \/ WaitStartedLock
    \/ WaitStartedRead

SpecLifecycle == Init /\ [][NextLifecycle]_vars

\* ------------------------------------------------------------- claims
InShutdown(t) == pc[t] \in {"sd_enter", "sd_locked"}
Count(seq, x) == Cardinality({ i \in DOMAIN seq : seq[i] = x })
StartFailures ==
    { "registering extension: transport error",
      "registering extension: nonzero status",
      "opening server socket" }

\* C1: a RegisterPlugin call that panics on an invalid registry name leaves
\* the registry exactly as it was when the call began.
C1_PanicLeavesRegistryUntouched ==
    regResult = "panic" => registry = regEntry

\* C2: Stop is initiated at most once; once a Shutdown call has completed
\* after a successful Start it has been initiated exactly once; and a
\* Shutdown call that finds the handle cleared changes nothing of the server
\* (it only takes and releases the mutex and returns).
C2_ShutdownIdempotent ==
    /\ [](stopInitiated <= 1)
    /\ [](sdAfterStart => stopInitiated = 1)
    /\ [][\A t \in ShutdownCallers :
            (ShutdownBody(t) /\ server = NULL) =>
                UNCHANGED << server, transport, started, promServer, closed, serving,
                             inflight, stopPending, stopWaiting, stopInitiated,
                             registry, metricVars, promState >>]_vars

\* Two Shutdown calls (Run's and the program's own) have returned after a
\* successful Start, and Stop was initiated once.
C2_Witness ==
    /\ started
    /\ pc["run"] = "done"
    /\ userShutdowns = 1 /\ pc["user"] = "idle"
    /\ stopInitiated = 1

\* C3: every Shutdown call returns, also the one made from inside the plugin
\* Call being served while the Stop task waits for that request; and the
\* dispatch path holds the mutex only inside such a Shutdown call.
C3_ShutdownAlwaysReturns ==
    /\ \A t \in ShutdownCallers : InShutdown(t) ~> ~InShutdown(t)
    /\ [](mutex = "host" => pc["host"] = "sd_locked")

\* The Shutdown made inside a plugin's Call has returned while the request
\* is still in flight and the Stop task is waiting for it.
C3_Witness ==
    /\ pc["host"] = "gauge"
    /\ cur.request.action = "shutdown"
    /\ inflight = 1
    /\ stopWaiting = 1
    /\ server = NULL

\* C4: the watchdog sees at most one failed ping and delivers at most one
\* failure; Run calls Shutdown at most once and Stop is initiated at most
\* once; and a Run ended by the watchdog has called Shutdown once and
\* returns the ping failure.
C4_WatchdogFailureShutsDownOnce ==
    /\ pingFailures <= 1
    /\ signals <= 1
    /\ Count(runTrace, "Shutdown") <= 1
    /\ stopInitiated <= 1
    /\ (pc["watchdog"] \in {"send", "done"} <=> pingFailures = 1)
    /\ (pc["run"] = "done" /\ errcFrom = "watchdog") =>
          /\ Count(runTrace, "Shutdown") = 1
          /\ runResult = "extension ping failed"
          /\ signals = 1

\* Run has returned after a watchdog failure.
C4_Witness ==
    /\ pc["run"] = "done"
    /\ errcFrom = "watchdog"
    /\ pingFailures = 1

\* C5: Run does nothing before the first completion; whichever task
\* delivered it and whatever the value, Run then shuts the metrics endpoint
\* down if there is one, calls Shutdown, and only then returns the value
\* it received.
C5_RunAlwaysShutsDown ==
    /\ pc["run"] \in {"idle", "recv", "prom"} => runTrace = <<>>
    /\ pc["run"] \in {"sd_enter", "sd_locked", "returning"} =>
          runTrace \in { << "Shutdown" >>, << "promShutdown", "Shutdown" >> }
    /\ pc["run"] = "done" =>
          /\ runTrace \in { << "Shutdown", "return" >>,
                            << "promShutdown", "Shutdown", "return" >> }
          /\ errcFrom \in {"start", "watchdog"}
          /\ runResult = errc
    /\ Count(runTrace, "promShutdown") = 1 => (promServer # NULL /\ promState = "shutdown")
    /\ (Count(runTrace, "Shutdown") = 1 /\ errcFrom = "start" /\ promServer # NULL) =>
          Count(runTrace, "promShutdown") = 1

\* Run has returned after a clean exit of the serve loop, having shut the
\* metrics endpoint down and called Shutdown.
C5_Witness ==
    /\ pc["run"] = "done"
    /\ errcFrom = "start"
    /\ runResult = NULL
    /\ runTrace = << "promShutdown", "Shutdown", "return" >>

\* C6: a Call for a registry name that is no key of the registry answers
\* status code 1 with the message "Unknown registry: X" and a nil error,
\* invokes no plugin, and changes no instrument, nor the registry, nor the
\* server's lifecycle state.
C6_UnknownRegistry ==
    [][\A registryName \in CallRegistries, item \in CallItems, request \in Requests :
         (CallLookup(registryName, item, request) /\ registryName \notin DOMAIN registry) =>
            /\ registryName = "bogus"
            /\ lastCall'.response =
                 [ status |-> [code |-> 1, message |-> "Unknown registry: bogus"],
                   response |-> <<>> ]
            /\ lastCall'.err = NULL
            /\ lastCall'.pluginCalls = 0
            /\ UNCHANGED << registry, metricVars, server, transport, started, closed,
                            serving, inflight, stopPending, stopInitiated, cur, pc,
                            mutex, crashed >>]_vars

\* A Call for the unknown registry "bogus" has been answered.
C6_Witness ==
    /\ lastCall.kind = "call"
    /\ lastCall.registry = "bogus"
    /\ lastCall.response.status.code = 1

\* C7: a Call for a known registry and an item with no plugin under it
\* answers status code 1 with the message "Unknown registry item: Y" and a
\* nil error, invokes no plugin, changes no instrument and does not stop
\* or terminate the server.
C7_UnknownItem ==
    [][\A registryName \in CallRegistries, item \in CallItems, request \in Requests :
         (/\ CallLookup(registryName, item, request)
          /\ registryName \in DOMAIN registry
          /\ item \notin DOMAIN registry[registryName]) =>
            /\ lastCall'.response =
                 [ status |-> [code |-> 1,
                               message |-> IF item = "t1"
                                           THEN "Unknown registry item: t1"
                                           ELSE "Unknown registry item: zz"],
                   response |-> <<>> ]
            /\ lastCall'.err = NULL
            /\ lastCall'.pluginCalls = 0
            /\ UNCHANGED << registry, metricVars, server, transport, started, closed,
                            serving, inflight, stopPending, stopInitiated, cur, pc,
                            mutex, crashed >>]_vars

\* A Call for an item that is not registered in the table registry, which
\* holds a plugin under another name, has been answered.
C7_Witness ==
    /\ lastCall.kind = "call"
    /\ lastCall.registry = "table"
    /\ lastCall.item = "zz"
    /\ "t1" \in DOMAIN registry["table"]
    /\ lastCall.response.status.message = "Unknown registry item: zz"

\* C8: a Call that finds a plugin invokes it exactly once, with the request
\* as received, and returns the plugin's response unchanged, whatever its
\* status code.
C8_PluginResponseVerbatim ==
    /\ (cur.kind = "call" => cur.pluginCalls <= 1)
    /\ (lastCall.kind = "call" /\ lastCall.plugin # NotFound) =>
          /\ lastCall.pluginCalls = 1
          /\ lastCall.seen = lastCall.request
          /\ lastCall.response = lastCall.answer
          /\ lastCall.answer \in PluginResponses
          /\ lastCall.err = NULL

\* A plugin's failure status has been returned by Call.
C8_Witness ==
    /\ lastCall.kind = "call"
    /\ lastCall.plugin # NotFound
    /\ lastCall.response.status.code = 1
    /\ lastCall.response.status.message = "plugin failed"

\* C9: the lookup of (C, N) gives the plugin last inserted under (C, N) by
\* RegisterPlugin, and not-found for a pair under which none was inserted;
\* and the plugin a finished Call dispatched to is that plugin.
C9_LookupReturnsRegistered ==
    /\ \A registryName \in CallRegistries, item \in CallItems :
          Lookup(registry, registryName, item) = latest[<<registryName, item>>]
    /\ lastCall.kind = "call" =>
          lastCall.plugin = latest[<<lastCall.registry, lastCall.item>>]

\* After p1 and then p2 were registered under (table, t1), a Call for
\* (table, t1) was dispatched to p2, and (config, t1) is not found.
C9_Witness ==
    /\ lastCall.kind = "call"
    /\ lastCall.registry = "table" /\ lastCall.item = "t1"
    /\ lastCall.plugin = "p2"
    /\ regCalls = 2
    /\ Lookup(registry, "config", "t1") = NotFound

\* C10: Start calls RegisterExtension at most once, and once Start has
\* failed to register or to open the listening endpoint, the started flag
\* is false, no server handle is stored and the serve loop has never run.
C10_StartFailureLeavesNothing ==
    /\ regExtCalls <= 1
    /\ startErr \in StartFailures =>
          /\ pc["start"] \in {"send", "done"}
          /\ ~started
          /\ server = NULL
          /\ ~serving /\ ~everServed /\ ~closed
    /\ (pc["run"] = "done" /\ errcFrom = "start" /\ errc \in StartFailures) =>
          runResult = errc

\* Start failed to open the listening endpoint and Run has returned that
\* error.
C10_Witness ==
    /\ startErr = "opening server socket"
    /\ pc["start"] = "done"
    /\ pc["run"] = "done"
    /\ regExtCalls = 1

C12_NoSenderLeftBlocked ==
    pc["run"] = "done" => (pc["start"] # "send" /\ pc["watchdog"] # "send")

\* C18: registering a plugin with a valid category and name writes only the
\* entry under that (category, name): afterwards the lookup of that pair
\* gives the plugin just registered, whatever was there before, and every
\* other (category, name) entry, the same name under another category
\* included, is what it was; no category is added or removed.
C18_RegistrationFrame ==
    [][RegisterPluginInsert =>
        LET p == Head(regRest)
        IN  /\ Lookup(registry', RegistryName(p), Name(p)) = p
            /\ DOMAIN registry' = DOMAIN registry
            /\ \A c \in DOMAIN registry, n \in CallItems \cup {"t2"} :
                  << c, n >> # << RegistryName(p), Name(p) >> =>
                      Lookup(registry', c, n) = Lookup(registry, c, n)]_vars

\* A call that has replaced table t1 (p1 by p2) while config t1 and table
\* t2 were registered and stay as they were.
C18_Witness ==
    /\ regResult = "running"
    /\ Lookup(regEntry, "table", "t1") = "p1"
    /\ Lookup(registry, "table", "t1") = "p2"
    /\ Lookup(registry, "config", "t1") = "p3"
    /\ Lookup(registry, "table", "t2") = "p5"

\* C19: with the instruments present, the call counter of a key
\* (item, action) equals the number of dispatches that found a plugin under
\* that key, less the one dispatch that has not yet passed its counter
\* step; the plugin has not been called before that step; the gauge of the
\* key of the last finished dispatch to a plugin holds that response's
\* number of rows; a dispatch answered for an unknown registry or item
\* changes no instrument.
C19_MetricsCountDispatches ==
    /\ [](~IsNil(pluginCounter) =>
            \A k \in MetricKeys :
                pluginCounter[k] =
                    Count(dispatched, k) -
                        (IF pc["host"] = "counter" /\ Key(cur) = k THEN 1 ELSE 0))
    /\ [](pc["host"] = "counter" => cur.pluginCalls = 0)
    /\ []((lastCall.kind = "call" /\ lastCall.plugin # NotFound /\ ~IsNil(pluginGauge)) =>
            pluginGauge[Key(lastCall)] = Len(lastCall.answer.response))
    /\ [][(lastCall' # lastCall /\ lastCall'.plugin = NotFound) =>
            UNCHANGED metricVars]_vars

\* One dispatch reached table t1 and returned one row, then a dispatch for
\* an unknown registry or item was answered.
C19_Witness ==
    /\ ~IsNil(pluginCounter)
    /\ requests = 2
    /\ pluginCounter[<< "t1", "generate" >>] = 1
    /\ dispatched = << << "t1", "generate" >> >>
    /\ pluginGauge[<< "t1", "generate" >>] = 1
    /\ lastCall.kind = "call"
    /\ lastCall.plugin = NotFound

\* C15: every registered plugin's Shutdown() is called once and never more
\* than once: when a Shutdown of the server has completed after a
\* successful Start, or Run has returned, every plugin in the registry has
\* had its Shutdown() called exactly once.
C15_PluginsAlertedOnce ==
    /\ \A p \in MorePluginIds : Count(shutdownCalls, p) <= 1
    /\ (sdAfterStart \/ pc["run"] = "done") =>
          \A c \in DOMAIN registry :
              \A n \in DOMAIN registry[c] : Count(shutdownCalls, registry[c][n]) = 1

\* The positions at which a task reads or writes s.started or s.server.
AtHandleAccess(t) ==
    CASE t = "start"  -> pc[t] = "setup"
      [] t = "waiter" -> pc[t] = "locked"
      [] t \in ShutdownCallers -> pc[t] = "sd_locked"
      [] OTHER -> FALSE

\* The positions between a task's Lock and its Unlock of s.mutex.
InLockedSection(t) ==
    CASE t = "start"  -> pc[t] \in {"register", "open", "setup"}
      [] t = "waiter" -> pc[t] = "locked"
      [] t = "user"   -> pc[t] \in {"sd_locked", "register"}
      [] t \in {"run", "host"} -> pc[t] = "sd_locked"
      [] OTHER -> FALSE

\* C20: Start, Shutdown and waitStarted read and write the started flag and
\* the server handle only while holding the server mutex, no step changes
\* either of them with the mutex free, and at most one task is between its
\* Lock and its Unlock at a time.
C20_HandleAccessUnderMutex ==
    /\ [](\A t \in Tasks : AtHandleAccess(t) => (InLockedSection(t) /\ mutex = t))
    /\ [](Cardinality({ t \in Tasks : InLockedSection(t) }) <= 1)
    /\ [][(started' # started \/ server' # server) =>
            (mutex # NULL /\ AtHandleAccess(mutex))]_vars

\* waitStarted holds the mutex while Shutdown, called after Start has set
\* the handle and the flag, waits for it.
C20_Witness ==
    /\ pc["waiter"] = "locked"
    /\ mutex = "waiter"
    /\ pc["user"] = "sd_enter"
    /\ started
    /\ server # NULL

\* The lifecycle state of the server, read off its fields and Start's
\* position: Failed once Start has an error to return, Stopped once Serve
\* has returned nil, ShuttingDown once a Shutdown has cleared the handle,
\* Serving while the accept loop runs, Listening once the endpoint is open,
\* Registering once Start has been entered, Constructed before.
Phase ==
    IF startErr \in StartFailures \cup {"serve error"} THEN "Failed"
    ELSE IF pc["start"] \in {"send", "done"} THEN "Stopped"
    ELSE IF stopInitiated > 0 THEN "ShuttingDown"
    ELSE IF serving THEN "Serving"
    ELSE IF transport # NULL THEN "Listening"
    ELSE IF pc["start"] # "off" THEN "Registering"
    ELSE "Constructed"

PhaseOrder ==
    << "Constructed", "Registering", "Listening", "Serving", "ShuttingDown",
       "Stopped", "Failed" >>
Rank(phase) == CHOOSE i \in DOMAIN PhaseOrder : PhaseOrder[i] = phase

\* C17, as claimed: the lifecycle state only ever stays, moves to the next
\* state of Constructed -> Registering -> Listening -> Serving ->
\* ShuttingDown -> Stopped, or moves into Failed: none is skipped.
C17_NoStateSkipped ==
    [][\/ Phase' = Phase
       \/ Rank(Phase') = Rank(Phase) + 1
       \/ Phase' = "Failed"]_vars

\* C17, amended: within Start the host registration has succeeded before the
\* endpoint is opened, the endpoint is open before the started flag is set,
\* and the flag is set before the accept loop runs; the lifecycle state never
\* moves backwards and leaves Failed never; it moves to the next state or
\* into Failed, except that a Shutdown that finds the handle before the
\* accept loop has begun takes Listening straight to ShuttingDown.
C17_LifecycleForward ==
    /\ [](transport # NULL =>
            (regExtCalls = 1 /\ pc["start"] \notin {"off", "lock", "register", "open"}))
    /\ [](started => transport # NULL)
    /\ [](everServed => started)
    /\ [][\/ Phase' = Phase
          \/ (Rank(Phase') = Rank(Phase) + 1 /\ Phase' # "Failed")
          \/ (Phase' = "Failed" /\ Phase # "Stopped")
          \/ (Phase = "Listening" /\ Phase' = "ShuttingDown" /\ started)]_vars

\* Start went through every state: it registered, listened, served, was
\* shut down and Serve returned nil.
C17_Witness ==
    /\ Phase = "Stopped"
    /\ regExtCalls = 1
    /\ started
    /\ everServed
    /\ stopInitiated = 1

\* C14: the last finished write on a store of n rows: an Insert left n+1
\* rows, the new row at index n and rows 0..n-1 as they were; a Delete(i)
\* with 0 <= i < n left n-1 rows, those before i as they were and every row
\* formerly at j > i now at j-1; an Update(i, values) with 0 <= i < n left n
\* rows, the new row at index i and every other row as it was. (Index k of
\* the store is element k+1 of the sequence.)
C14_RowOperations ==
    lastOp.kind # "none" =>
        LET n == Len(lastOp.before)
            i == lastOp.rowID
            before == lastOp.before
            after == lastOp.after
        IN  /\ lastOp.kind = "insert" =>
                /\ Len(after) = n + 1
                /\ after[n + 1] = lastOp.row
                /\ \A j \in 0 .. (n - 1) : after[j + 1] = before[j + 1]
            /\ lastOp.kind = "delete" =>
                /\ 0 <= i /\ i < n
                /\ Len(after) = n - 1
                /\ \A j \in 0 .. (i - 1) : after[j + 1] = before[j + 1]
                /\ \A j \in (i + 1) .. (n - 1) : after[j] = before[j + 1]
            /\ lastOp.kind = "update" =>
                /\ 0 <= i /\ i < n
                /\ Len(after) = n
                /\ after[i + 1] = lastOp.row
                /\ \A j \in 0 .. (n - 1) : j # i => after[j + 1] = before[j + 1]
            /\ (lock.writer = NULL /\ ~crashed) => mutableData = after

\* The middle row of a store of three rows, the third of them inserted
\* before, has just been deleted.
C14_Witness ==
    /\ lastOp.kind = "delete"
    /\ lastOp.rowID = 1
    /\ Len(lastOp.before) = 3
    /\ lastOp.before[3] = MakeRow(<< 56789, 120, 25, "new" >>)
    /\ mutableData = << InitialRows[1], MakeRow(<< 56789, 120, 25, "new" >>) >>

\* A handler is reading rows of the current backing array: inside
\* MutableGenerate, or afterwards through the slice it returned.
ReadingRows(t) ==
    \/ tpc[t] = "scan"
    \/ (tpc[t] = "respond" /\ alias[t] = arrayGen)

\* A handler is between Lock and Unlock of a write into the current backing
\* array (an append that has to allocate writes into a new one).
WritingRows(t) ==
    /\ tpc[t] = "write"
    /\ (top[t].kind \in {"update", "delete"} \/ spare > 0)

\* C13: scans of the mutable table may overlap each other, but no read of
\* the rows overlaps an Insert, Update or Delete writing them, and no two
\* writers overlap.
C13_ReadersExcludeWriters ==
    \A r \in Handlers, w \in Handlers :
        r # w =>
            /\ ~(ReadingRows(r) /\ WritingRows(w))
            /\ ~(tpc[r] = "write" /\ tpc[w] = "write")

\* The host query failed: at the transport, with no status, or with a
\* nonzero status code.
QueryFailed(reply) ==
    \/ reply.err # NULL
    \/ reply.status = NoStatus
    \/ reply.status.code # 0

\* C16: QueryRows returns an error whenever the host query failed at the
\* transport, came back without a status or with a nonzero status code, and
\* otherwise returns the rows of the response unchanged; QueryRow succeeds
\* exactly when the query did not fail and the response has exactly one
\* row, which it returns, and so fails for more than one row.
C16_QueryRowsAndQueryRow ==
    /\ qResult.op = "QueryRows" =>
          IF QueryFailed(qResult.reply)
          THEN qResult.err # NULL
          ELSE qResult.err = NULL /\ qResult.rows = qResult.reply.response
    /\ qResult.op = "QueryRow" =>
          /\ qResult.err = NULL <=>
                (~QueryFailed(qResult.reply) /\ Len(qResult.reply.response) = 1)
          /\ qResult.err = NULL => qResult.rows = << qResult.reply.response[1] >>
          /\ Len(qResult.reply.response) > 1 => qResult.err # NULL

\* The last case of TestQueryRows: the host answered with status 0 and two
\* rows, and QueryRow returned an error.
C16_Witness ==
    /\ qResult.op = "QueryRow"
    /\ qResult.reply.err = NULL
    /\ qResult.reply.status = Status(0, "OK")
    /\ qResult.reply.response = << [c \in {"1"} |-> "1"], [c \in {"1"} |-> "2"] >>
    /\ qResult.err # NULL

\* ------------------------------------------------------------- C21
\* C21: once Run has returned the server is stopped for good: the listening
\* endpoint is not opened after that, the serve loop does not begin, and a
\* serve loop still running is one that a Stop is closing or has closed.
C21_StoppedAfterRun ==
    [][pc["run"] = "done" =>
        /\ (transport = NULL => transport' = NULL)
        /\ (~serving => ~serving')
        /\ (serving' => (closed' \/ stopPending' + stopWaiting' > 0))]_vars

====
